---- MODULE Spec2Model ----
(***************************************************************************)
(* Model of the streaming exporter: the paged RowIterator, the catalog     *)
(* introspection fetchMetadata with its foreign-key closure pass, main     *)
(* with saveTableToNumpy, and the eager loader FetchTableData.             *)
(*                                                                         *)
(* The specifications of the module:                                       *)
(*   Spec           one RowIterator over one table (Next / Close)          *)
(*   LiveSpec       Spec with a caller that keeps calling Next             *)
(*   ChurnSpec      a RowIterator while another process writes the table   *)
(*   EagerSpec      FetchTableData next to a RowIterator on the same table *)
(*   MetaSpec       one run of fetchMetadata over a catalog and selection  *)
(*   MetaTwiceSpec  two runs of fetchMetadata over the same catalog        *)
(*   ExportSpec     main and the streaming saveTableToNumpy                *)
(*   NpzSpec        saveTableToNumpy(table TableData), one archive         *)
(* Each specification keeps the variables of the others at idle values.    *)
(***************************************************************************)
EXTENDS Integers, Sequences, FiniteSets, TLC

\* ------------------------------------------------------------------------
\* Bounds
\* ------------------------------------------------------------------------
\* largest table, in rows
MaxRows == 5

\* largest page size (the source fixes BATCHSIZE = 100000; the model draws it)
MaxPage == 3

\* the ghost counter of Next() calls made after the end saturates here
MaxCallsAfterEnd == 2

\* most rows the foreign-key catalog query returns for one table
MaxFkRows == 2

\* most rows of the first and of the second exported table
MaxExportRows == 3

MaxToolRows == 2

\* largest page size of an export run
MaxExportPage == 2

\* ------------------------------------------------------------------------
\* State
\* ------------------------------------------------------------------------
VARIABLES
    \* --- the database table and the page size
    table,          \* the table's rows in the order the database returns them
    BATCHSIZE,      \* the LIMIT of every page query
    \* --- RowIterator fields
    offset,         \* ri.offset
    currentRows,    \* ri.currentRows: 0 is nil, otherwise a cursor handle
    currentBatch,   \* ri.currentBatch
    batchIndex,     \* ri.batchIndex
    err,            \* ri.err
    done,           \* ri.done
    \* --- the database side of the iterator and what callers observed
    open,           \* handles of the result cursors that are open
    peakOpen,       \* most cursors ever open at once, sampled at each db.Query
    queries,        \* number of db.Query calls issued
    fetchLog,       \* batchCount of every fetch whose row loop ran to its end
    yielded,        \* rows returned by Next() together with true
    lastRet,        \* what the latest Next() returned
    faulted,        \* the database failed at least once (reported or not)
    closeCalled,    \* Close() has been called
    callsAfterEnd,  \* Next() calls made when done or err was already set
    \* --- fetchMetadata
    tableNames,     \* the selection passed to fetchMetadata
    tablesRows,     \* rows of tablesQuery, in the order the database returns them
    fkRows,         \* rows of fkQuery for table "sessions"
    rowIdx,         \* number of tablesQuery rows consumed
    schemaTables,   \* schema.Tables
    preTables,      \* schema.Tables as it was when the closure pass started
    mpc,            \* position inside fetchMetadata
    merr,           \* the error fetchMetadata returns
    run,            \* which call of fetchMetadata this is: 1 or 2
    firstTables,    \* schema.Tables returned by the first call
    \* --- main and saveTableToNumpy
    dbTables,       \* the rows of every exported table, by table name
    epc,            \* position inside main / saveTableToNumpy
    cur,            \* index in metadata.Tables of the table being exported
    totalRows,      \* totalRows, the result of SELECT COUNT(*)
    columnData,     \* columnData: one array per field of the current table
    rowCount,       \* rowCount
    wcol,           \* number of column files of the current table written
    written,        \* the column files written so far, in order
    metadataSaved,  \* saveMetadata has written metadata.json
    closedIters,    \* indexes of the tables whose iterator was closed
    fatalWhy,       \* what made main call log.Fatalf
    warned,         \* columns for which "unexpected type" was logged
    \* --- another process writing to the table while it is iterated
    churn,          \* the one concurrent write made so far, if any
    \* --- FetchTableData
    eagerOffset,    \* offset
    tableDataRows,  \* tableData.Rows
    eagerPc,        \* position inside FetchTableData
    eagerFaulted    \* the database failed during FetchTableData

iterVars == <<table, BATCHSIZE, offset, currentRows, currentBatch, batchIndex,
              err, done, open, peakOpen, queries, fetchLog, yielded, lastRet,
              faulted, closeCalled, callsAfterEnd>>

metaVars == <<tableNames, tablesRows, fkRows, rowIdx, schemaTables, preTables,
              mpc, merr, run, firstTables>>

exportVars == <<dbTables, epc, cur, totalRows, columnData, rowCount, wcol,
                written, metadataSaved, closedIters, fatalWhy, warned>>

churnVars == <<churn>>

eagerVars == <<eagerOffset, tableDataRows, eagerPc, eagerFaulted>>

vars == <<iterVars, metaVars, exportVars, churnVars, eagerVars>>

\* ------------------------------------------------------------------------
\* Helpers
\* ------------------------------------------------------------------------
Min(a, b) == IF a < b THEN a ELSE b

Max(a, b) == IF a > b THEN a ELSE b

\* ceil(n / p) for p >= 1
CeilDiv(n, p) == (n + p - 1) \div p

\* the nil error
NoErr == "nil"

\* Next() returning (nil, false)
NilFalse == [row |-> 0, ok |-> FALSE]

\* ------------------------------------------------------------------------
\* RowIterator
\* ------------------------------------------------------------------------
PageNoLimit(off) == SubSeq(table, off + 1, Len(table))

\* SELECT ... LIMIT BATCHSIZE OFFSET off over the table as it is now
Page(off) == SubSeq(table, off + 1, Min(off + BATCHSIZE, Len(table)))

\* the offset substituted into the page query
QueryOffset(off) == off

AtEndOnlyErr(d, e) == e # NoErr

AtEndOnlyCleanDone(d, e) == d /\ e = NoErr

\* if ri.done || ri.err != nil
AtEnd(d, e) == d \/ e # NoErr

NeedFetchEarly(cr, bi, batch) == cr = 0 \/ bi + 1 >= Len(batch)

\* if ri.currentRows == nil || ri.batchIndex >= len(ri.currentBatch)
NeedFetch(cr, bi, batch) == cr = 0 \/ bi >= Len(batch)

ReleasePreviousSkipped(op, cr) == op

\* if ri.currentRows != nil { ri.currentRows.Close() }
ReleasePrevious(op, cr) == IF cr # 0 THEN op \ {cr} ELSE op

IsShortBatch(batchCount) == batchCount < BATCHSIZE

\* if batchCount == 0
IsLastBatch(batchCount) == batchCount = 0

AdvanceOffsetStuck(off, batchCount) == off

AdvanceOffsetByPage(off, batchCount) == off + BATCHSIZE

\* ri.offset += batchCount
AdvanceOffset(off, batchCount) == off + batchCount

\* the saturating ghost counter
Bump(n) == Min(n + 1, MaxCallsAfterEnd)

\* Next(), first guard: the iterator is done or failed
RiNextAfterEnd ==
    /\ AtEnd(done, err)
    /\ lastRet' = NilFalse
    /\ callsAfterEnd' = Bump(callsAfterEnd)
    /\ UNCHANGED <<table, BATCHSIZE, offset, currentRows, currentBatch,
                   batchIndex, err, done, open, peakOpen, queries, fetchLog,
                   yielded, faulted, closeCalled>>

\* the same step of an iterator that runs on its own
NextAfterEnd ==
    /\ RiNextAfterEnd
    /\ UNCHANGED metaVars
    /\ UNCHANGED exportVars
    /\ UNCHANGED churnVars
    /\ UNCHANGED eagerVars

\* Next(): a row is left in the page, no fetch
RiNextBuffered ==
    /\ ~AtEnd(done, err)
    /\ ~NeedFetch(currentRows, batchIndex, currentBatch)
    /\ batchIndex' = batchIndex + 1
    /\ yielded' = Append(yielded, currentBatch[batchIndex + 1])
    /\ lastRet' = [row |-> currentBatch[batchIndex + 1], ok |-> TRUE]
    /\ UNCHANGED <<table, BATCHSIZE, offset, currentRows, currentBatch, err,
                   done, open, peakOpen, queries, fetchLog, faulted,
                   closeCalled, callsAfterEnd>>

\* the same step of an iterator that runs on its own
NextBuffered ==
    /\ RiNextBuffered
    /\ UNCHANGED metaVars
    /\ UNCHANGED exportVars
    /\ UNCHANGED churnVars
    /\ UNCHANGED eagerVars

\* Next(): a fetch is needed and db.Query fails
RiNextQueryFail ==
    /\ ~AtEnd(done, err)
    /\ NeedFetch(currentRows, batchIndex, currentBatch)
    /\ open' = ReleasePrevious(open, currentRows)
    /\ peakOpen' = Max(peakOpen, Cardinality(ReleasePrevious(open, currentRows)))
    /\ queries' = queries + 1
    /\ err' = "query"
    /\ done' = TRUE
    /\ faulted' = TRUE
    /\ lastRet' = NilFalse
    /\ UNCHANGED <<table, BATCHSIZE, offset, currentRows, currentBatch,
                   batchIndex, fetchLog, yielded, closeCalled, callsAfterEnd>>

\* the same step of an iterator that runs on its own
NextQueryFail ==
    /\ RiNextQueryFail
    /\ UNCHANGED metaVars
    /\ UNCHANGED exportVars
    /\ UNCHANGED churnVars
    /\ UNCHANGED eagerVars

\* Next(): the query succeeds and rows.Columns() fails
RiNextColumnsFail ==
    /\ ~AtEnd(done, err)
    /\ NeedFetch(currentRows, batchIndex, currentBatch)
    /\ LET released == ReleasePrevious(open, currentRows)
           h == queries + 1
       IN  /\ peakOpen' = Max(peakOpen, Cardinality(released \cup {h}))
           /\ open' = released
           /\ currentRows' = h
    /\ queries' = queries + 1
    /\ currentBatch' = <<>>
    /\ batchIndex' = 0
    /\ err' = "columns"
    /\ done' = TRUE
    /\ faulted' = TRUE
    /\ lastRet' = NilFalse
    /\ UNCHANGED <<table, BATCHSIZE, offset, fetchLog, yielded, closeCalled,
                   callsAfterEnd>>

\* the same step of an iterator that runs on its own
NextColumnsFail ==
    /\ RiNextColumnsFail
    /\ UNCHANGED metaVars
    /\ UNCHANGED exportVars
    /\ UNCHANGED churnVars
    /\ UNCHANGED eagerVars

\* Next(): rows.Scan fails on row j + 1 of the page, after j rows were buffered
RiNextScanFail ==
    /\ ~AtEnd(done, err)
    /\ NeedFetch(currentRows, batchIndex, currentBatch)
    /\ \E j \in 0 .. (Len(Page(QueryOffset(offset))) - 1) :
         currentBatch' = SubSeq(Page(QueryOffset(offset)), 1, j)
    /\ LET released == ReleasePrevious(open, currentRows)
           h == queries + 1
       IN  /\ peakOpen' = Max(peakOpen, Cardinality(released \cup {h}))
           /\ open' = released
           /\ currentRows' = h
    /\ queries' = queries + 1
    /\ batchIndex' = 0
    /\ err' = "scan"
    /\ done' = TRUE
    /\ faulted' = TRUE
    /\ lastRet' = NilFalse
    /\ UNCHANGED <<table, BATCHSIZE, offset, fetchLog, yielded, closeCalled,
                   callsAfterEnd>>

\* the same step of an iterator that runs on its own
NextScanFail ==
    /\ RiNextScanFail
    /\ UNCHANGED metaVars
    /\ UNCHANGED exportVars
    /\ UNCHANGED churnVars
    /\ UNCHANGED eagerVars

\* Next(): the query succeeds and the row loop runs until rows.Next() is
\* false.  rows.Next() is false at the end of the result set and also when
\* the driver fails in mid-stream; the code never reads rows.Err(), so it
\* sees the k rows delivered so far as the whole page.
RiNextFetch ==
    /\ ~AtEnd(done, err)
    /\ NeedFetch(currentRows, batchIndex, currentBatch)
    /\ \E k \in 0 .. Len(Page(QueryOffset(offset))) :
         LET full == Page(QueryOffset(offset))
             batch == SubSeq(full, 1, k)
             released == ReleasePrevious(open, currentRows)
             h == queries + 1
         IN  /\ peakOpen' = Max(peakOpen, Cardinality(released \cup {h}))
             /\ currentRows' = h
             /\ queries' = queries + 1
             /\ fetchLog' = Append(fetchLog, k)
             /\ faulted' = (faulted \/ k < Len(full))
             /\ IF IsLastBatch(k)
                THEN /\ done' = TRUE
                     /\ open' = released
                     /\ currentBatch' = batch
                     /\ batchIndex' = 0
                     /\ lastRet' = NilFalse
                     /\ UNCHANGED <<offset, yielded>>
                ELSE /\ offset' = AdvanceOffset(offset, k)
                     /\ open' = released \cup {h}
                     /\ currentBatch' = batch
                     /\ batchIndex' = 1
                     /\ yielded' = Append(yielded, batch[1])
                     /\ lastRet' = [row |-> batch[1], ok |-> TRUE]
                     /\ UNCHANGED done
    /\ UNCHANGED <<table, BATCHSIZE, err, closeCalled, callsAfterEnd>>

\* the same step of an iterator that runs on its own
NextFetch ==
    /\ RiNextFetch
    /\ UNCHANGED metaVars
    /\ UNCHANGED exportVars
    /\ UNCHANGED churnVars
    /\ UNCHANGED eagerVars

\* RowIterator.Next, whoever calls it
RiNext ==
    \/ RiNextAfterEnd
    \/ RiNextBuffered
    \/ RiNextQueryFail
    \/ RiNextColumnsFail
    \/ RiNextScanFail
    \/ RiNextFetch

\* RowIterator.Next
IterNextCall ==
    \/ NextAfterEnd
    \/ NextBuffered
    \/ NextQueryFail
    \/ NextColumnsFail
    \/ NextScanFail
    \/ NextFetch

\* RowIterator.Close
RiClose ==
    /\ open' = (IF currentRows # 0 THEN open \ {currentRows} ELSE open)
    /\ currentRows' = 0
    /\ closeCalled' = TRUE
    /\ UNCHANGED <<table, BATCHSIZE, offset, currentBatch, batchIndex, err,
                   done, peakOpen, queries, fetchLog, yielded, lastRet,
                   faulted, callsAfterEnd>>

\* the same step of an iterator that runs on its own
Close ==
    /\ RiClose
    /\ UNCHANGED metaVars
    /\ UNCHANGED exportVars
    /\ UNCHANGED churnVars
    /\ UNCHANGED eagerVars

\* fetchMetadata has not been called
MetaIdle ==
    /\ tableNames = <<>>
    /\ tablesRows = <<>>
    /\ fkRows = <<>>
    /\ rowIdx = 0
    /\ schemaTables = <<>>
    /\ preTables = <<>>
    /\ mpc = "idle"
    /\ merr = NoErr
    /\ run = 1
    /\ firstTables = <<>>

\* main has not started
ExportIdle ==
    /\ dbTables = <<>>
    /\ epc = "idle"
    /\ cur = 0
    /\ totalRows = 0
    /\ columnData = <<>>
    /\ rowCount = 0
    /\ wcol = 0
    /\ written = <<>>
    /\ metadataSaved = FALSE
    /\ closedIters = {}
    /\ fatalWhy = "none"
    /\ warned = {}

\* nobody else writes to the table
ChurnIdle == churn = [kind |-> "none", pos |-> 0, at |-> 0, row |-> 0]

\* FetchTableData has not been called
EagerIdle ==
    /\ eagerOffset = 0
    /\ tableDataRows = <<>>
    /\ eagerPc = "idle"
    /\ eagerFaulted = FALSE

\* NewRowIterator over a table of up to MaxRows rows
Init ==
    /\ \E n \in 0 .. MaxRows : table = [i \in 1 .. n |-> i]
    /\ BATCHSIZE \in 1 .. MaxPage
    /\ offset = 0
    /\ currentRows = 0
    /\ currentBatch = <<>>
    /\ batchIndex = 0
    /\ err = NoErr
    /\ done = FALSE
    /\ open = {}
    /\ peakOpen = 0
    /\ queries = 0
    /\ fetchLog = <<>>
    /\ yielded = <<>>
    /\ lastRet = NilFalse
    /\ faulted = FALSE
    /\ closeCalled = FALSE
    /\ callsAfterEnd = 0
    /\ MetaIdle
    /\ ExportIdle
    /\ ChurnIdle
    /\ EagerIdle

Next ==
    \/ IterNextCall
    \/ Close

Spec == Init /\ [][Next]_vars

\* the caller keeps calling Next(): every call returns, so a call that can
\* be made is made
LiveSpec == Init /\ [][Next]_vars /\ WF_vars(IterNextCall)

\* ------------------------------------------------------------------------
\* RowIterator while another process writes to the table
\* ------------------------------------------------------------------------
\* seq without its element at position p
RemoveAt(seq, p) == SubSeq(seq, 1, p - 1) \o SubSeq(seq, p + 1, Len(seq))

\* seq with x put at position p
InsertAt(seq, p, x) == SubSeq(seq, 1, p - 1) \o <<x>> \o SubSeq(seq, p, Len(seq))

\* between two fetches another process deletes the row the table returns at
\* position p; the page query has no ORDER BY, every later row moves up
ChurnDelete ==
    /\ churn.kind = "none"
    /\ fetchLog # <<>>
    /\ ~AtEnd(done, err)
    /\ \E p \in 1 .. Len(table) :
         /\ table' = RemoveAt(table, p)
         /\ churn' = [kind |-> "delete", pos |-> p, at |-> offset, row |-> table[p]]
    /\ UNCHANGED <<BATCHSIZE, offset, currentRows, currentBatch, batchIndex,
                   err, done, open, peakOpen, queries, fetchLog, yielded,
                   lastRet, faulted, closeCalled, callsAfterEnd>>
    /\ UNCHANGED metaVars
    /\ UNCHANGED exportVars
    /\ UNCHANGED eagerVars

\* between two fetches another process inserts a row, which the table then
\* returns at position p; every later row moves down
ChurnInsert ==
    /\ churn.kind = "none"
    /\ fetchLog # <<>>
    /\ ~AtEnd(done, err)
    /\ \E p \in 1 .. (Len(table) + 1) :
         /\ table' = InsertAt(table, p, Len(table) + 1)
         /\ churn' = [kind |-> "insert", pos |-> p, at |-> offset,
                      row |-> Len(table) + 1]
    /\ UNCHANGED <<BATCHSIZE, offset, currentRows, currentBatch, batchIndex,
                   err, done, open, peakOpen, queries, fetchLog, yielded,
                   lastRet, faulted, closeCalled, callsAfterEnd>>
    /\ UNCHANGED metaVars
    /\ UNCHANGED exportVars
    /\ UNCHANGED eagerVars

ChurnNext ==
    \/ IterNextCall
    \/ ChurnDelete
    \/ ChurnInsert

ChurnSpec == Init /\ [][ChurnNext]_vars

\* ------------------------------------------------------------------------
\* FetchTableData, next to a RowIterator over the same table
\* ------------------------------------------------------------------------
\* if batchCount == 0 { break }
EagerIsLastBatch(batchCount) == batchCount = 0

EagerAdvanceByOne(off, batchCount) == off + 1

\* offset += BATCHSIZE
EagerAdvance(off, batchCount) == off + BATCHSIZE

\* FetchTableData is called: offset := 0, no rows yet
EagerCall ==
    /\ eagerPc = "idle"
    /\ eagerPc' = "loop"
    /\ eagerOffset' = 0
    /\ tableDataRows' = <<>>
    /\ UNCHANGED eagerFaulted
    /\ UNCHANGED iterVars
    /\ UNCHANGED metaVars
    /\ UNCHANGED exportVars
    /\ UNCHANGED churnVars

\* one turn of the loop: the query succeeds and the row loop runs until
\* rows.Next() is false; rows.Err() is not read here either, so the k rows
\* delivered count as the whole page
EagerFetch ==
    /\ eagerPc = "loop"
    /\ \E k \in 0 .. Len(Page(eagerOffset)) :
         /\ tableDataRows' = tableDataRows \o SubSeq(Page(eagerOffset), 1, k)
         /\ eagerFaulted' = (eagerFaulted \/ k < Len(Page(eagerOffset)))
         /\ IF EagerIsLastBatch(k)
            THEN /\ eagerPc' = "returned"
                 /\ UNCHANGED eagerOffset
            ELSE /\ eagerOffset' = EagerAdvance(eagerOffset, k)
                 /\ UNCHANGED eagerPc
    /\ UNCHANGED iterVars
    /\ UNCHANGED metaVars
    /\ UNCHANGED exportVars
    /\ UNCHANGED churnVars

\* db.Query, rows.Columns or rows.Scan fails: return nil, err
EagerFail ==
    /\ eagerPc = "loop"
    /\ eagerPc' = "failed"
    /\ tableDataRows' = <<>>
    /\ eagerFaulted' = TRUE
    /\ UNCHANGED eagerOffset
    /\ UNCHANGED iterVars
    /\ UNCHANGED metaVars
    /\ UNCHANGED exportVars
    /\ UNCHANGED churnVars

EagerNext ==
    \/ IterNextCall
    \/ EagerCall
    \/ EagerFetch
    \/ EagerFail

EagerSpec == Init /\ [][EagerNext]_vars

\* ------------------------------------------------------------------------
\* fetchMetadata
\* ------------------------------------------------------------------------
\* base tables of schema public, the rows of tablesQuery
PublicTables == {"users", "sessions", "orgs"}

\* table names a selection or a foreign key can name; "teams" is not a base
\* table of schema public (fkQuery does not filter the referenced schema)
Names == PublicTables \cup {"teams"}

\* a nil pointer and a pointer to v
Nil == <<>>

Ptr(v) == <<v>>

\* rows of columnsQuery for table t, ORDER BY ordinal_position
ColumnRows(t) ==
    CASE t = "users" ->
           << [column_name |-> "id", data_type |-> "integer", is_nullable |-> "NO"],
              [column_name |-> "name", data_type |-> "text", is_nullable |-> "YES"] >>
      [] t = "sessions" ->
           << [column_name |-> "id", data_type |-> "bigint", is_nullable |-> "NO"],
              [column_name |-> "user_id", data_type |-> "integer", is_nullable |-> "NO"],
              [column_name |-> "org_id", data_type |-> "integer", is_nullable |-> "YES"] >>
      [] t = "orgs" ->
           << [column_name |-> "id", data_type |-> "uuid", is_nullable |-> "NO"],
              [column_name |-> "owner_id", data_type |-> "integer", is_nullable |-> "YES"],
              [column_name |-> "settings", data_type |-> "jsonb", is_nullable |-> "YES"] >>
      [] OTHER -> <<>>

\* rows of pkQuery for table t
PkRows(t) == << "id" >>

\* what one fkQuery row for table "sessions" can be
FkRowSpace ==
    [column_name : {"user_id", "org_id"},
     foreign_table : {"users", "orgs", "teams"},
     foreign_column : {"id"}]

\* rows of fkQuery for table t
FkRowsOf(t) ==
    CASE t = "sessions" -> fkRows
      [] t = "orgs" ->
           << [column_name |-> "owner_id", foreign_table |-> "users",
               foreign_column |-> "id"] >>
      [] OTHER -> <<>>

DataTypeString == "string"

DataTypeInt == "int"

DataTypeFloat == "float"

DataTypeBool == "bool"

DataTypeTime == "timestamp"

DataTypeDate == "date"

DataTypeUUID == "uuid"

mapDataType(pgType) ==
    CASE pgType \in {"character varying", "text", "varchar"} -> DataTypeString
      [] pgType \in {"integer", "bigint", "smallint"} -> DataTypeInt
      [] pgType \in {"numeric", "decimal", "real", "double precision"} -> DataTypeFloat
      [] pgType = "boolean" -> DataTypeBool
      [] pgType \in {"timestamp without time zone", "timestamp with time zone",
                     "time without time zone", "time with time zone"} -> DataTypeTime
      [] pgType = "date" -> DataTypeDate
      [] pgType = "uuid" -> DataTypeUUID
      [] OTHER -> DataTypeString

AskedAlways(sel, name) == TRUE

\* for _, t := range tableNames { if t == tableName ... }
Asked(sel, name) == \E i \in 1 .. Len(sel) : sel[i] = name

\* FieldMetadata{FieldName, DataType, IsNullable} of one columnsQuery row
NewField(row) ==
    [FieldName |-> row.column_name,
     DataType |-> mapDataType(row.data_type),
     IsNullable |-> (row.is_nullable = "YES"),
     IsPrimaryKey |-> FALSE,
     IsForeignKey |-> FALSE,
     ReferencedTable |-> Nil,
     ReferencedField |-> Nil]

\* pkMap[pkColumn] = true for every pkQuery row
PkMap(rows) == {rows[i] : i \in 1 .. Len(rows)}

\* fkMap[colName] = {foreignTable, foreignColumn}: a later row overwrites
FkMap(rows) ==
    [c \in {rows[i].column_name : i \in 1 .. Len(rows)} |->
        LET last == CHOOSE i \in 1 .. Len(rows) :
                        /\ rows[i].column_name = c
                        /\ \A j \in (i + 1) .. Len(rows) : rows[j].column_name # c
        IN  [foreignTable |-> rows[last].foreign_table,
             foreignColumn |-> rows[last].foreign_column]]

\* the field after the primary-key and the foreign-key marking loops
MarkKeys(f, pkMap, fkMap) ==
    LET g == IF f.FieldName \in pkMap THEN [f EXCEPT !.IsPrimaryKey = TRUE] ELSE f
    IN  IF f.FieldName \in DOMAIN fkMap
        THEN [g EXCEPT !.IsForeignKey = TRUE,
                       !.ReferencedTable = Ptr(fkMap[f.FieldName].foreignTable),
                       !.ReferencedField = Ptr(fkMap[f.FieldName].foreignColumn)]
        ELSE g

\* TableMetadata built by one iteration of the tables loop
BuildTable(t) ==
    LET cols == ColumnRows(t)
        pkMap == PkMap(PkRows(t))
        fkMap == FkMap(FkRowsOf(t))
    IN  [TableName |-> t,
         Fields |-> [i \in 1 .. Len(cols) |-> MarkKeys(NewField(cols[i]), pkMap, fkMap)]]

FoundAlways(sel, name) == TRUE

FoundNever(sel, name) == FALSE

\* closure pass: is the referenced table among the selected tables
Found(sel, name) == \E i \in 1 .. Len(sel) : sel[i] = name

ClearReferenceKeepFlag(f) ==
    [f EXCEPT !.ReferencedTable = Nil, !.ReferencedField = Nil]

\* closure pass: if !found { ReferencedTable = nil; IsForeignKey = false; ... }
ClearReference(f) ==
    [f EXCEPT !.ReferencedTable = Nil,
              !.IsForeignKey = FALSE,
              !.ReferencedField = Nil]

\* closure pass, body of the field loop
FixField(f, sel) ==
    IF f.IsForeignKey /\ f.ReferencedTable # Nil
    THEN IF ~Found(sel, f.ReferencedTable[1]) THEN ClearReference(f) ELSE f
    ELSE f

\* closure pass over schema.Tables
Closure(tables, sel) ==
    [ti \in 1 .. Len(tables) |->
        [tables[ti] EXCEPT !.Fields =
            [fi \in 1 .. Len(tables[ti].Fields) |->
                FixField(tables[ti].Fields[fi], sel)]]]

\* the selections: every subset of Names, as a slice
BaseOrder == << "users", "sessions", "orgs", "teams" >>

RECURSIVE Filter(_, _)
Filter(seq, S) ==
    IF seq = <<>> THEN <<>>
    ELSE IF Head(seq) \in S THEN <<Head(seq)>> \o Filter(Tail(seq), S)
         ELSE Filter(Tail(seq), S)

Selections == {Filter(BaseOrder, S) : S \in SUBSET Names}

\* the orders in which tablesQuery can return the base tables
TableOrders ==
    {s \in [1 .. Cardinality(PublicTables) -> PublicTables] :
        \A i, j \in DOMAIN s : i # j => s[i] # s[j]}

\* no RowIterator exists
IterIdle ==
    /\ table = <<>>
    /\ BATCHSIZE = 1
    /\ offset = 0
    /\ currentRows = 0
    /\ currentBatch = <<>>
    /\ batchIndex = 0
    /\ err = NoErr
    /\ done = FALSE
    /\ open = {}
    /\ peakOpen = 0
    /\ queries = 0
    /\ fetchLog = <<>>
    /\ yielded = <<>>
    /\ lastRet = NilFalse
    /\ faulted = FALSE
    /\ closeCalled = FALSE
    /\ callsAfterEnd = 0

\* fetchMetadata is called with a selection against a catalog
MetaInit ==
    /\ tableNames \in Selections
    /\ tablesRows \in TableOrders
    /\ fkRows \in UNION {[1 .. n -> FkRowSpace] : n \in 0 .. MaxFkRows}
    /\ rowIdx = 0
    /\ schemaTables = <<>>
    /\ preTables = <<>>
    /\ mpc = "start"
    /\ merr = NoErr
    /\ run = 1
    /\ firstTables = <<>>
    /\ IterIdle
    /\ ExportIdle
    /\ ChurnIdle
    /\ EagerIdle

\* db.Query(tablesQuery) succeeds
MetaQueryTables ==
    /\ mpc = "start"
    /\ mpc' = "rows"
    /\ UNCHANGED <<tableNames, tablesRows, fkRows, rowIdx, schemaTables,
                   preTables, merr, run, firstTables>>
    /\ UNCHANGED iterVars
    /\ UNCHANGED exportVars
    /\ UNCHANGED churnVars
    /\ UNCHANGED eagerVars

\* one iteration of for rows.Next(): skip a table that was not asked for,
\* otherwise build its TableMetadata and append it
MetaRow ==
    /\ mpc = "rows"
    /\ rowIdx < Len(tablesRows)
    /\ rowIdx' = rowIdx + 1
    /\ LET tableName == tablesRows[rowIdx + 1]
       IN  IF ~Asked(tableNames, tableName)
           THEN UNCHANGED schemaTables
           ELSE schemaTables' = Append(schemaTables, BuildTable(tableName))
    /\ UNCHANGED <<tableNames, tablesRows, fkRows, preTables, mpc, merr, run,
                   firstTables>>
    /\ UNCHANGED iterVars
    /\ UNCHANGED exportVars
    /\ UNCHANGED churnVars
    /\ UNCHANGED eagerVars

\* the errors a catalog query or scan can raise at the current position
MetaErrorsHere ==
    IF mpc = "start" THEN {"querying tables"}
    ELSE IF mpc = "rows" /\ rowIdx < Len(tablesRows)
         THEN {"scanning table name", "processing tables"} \cup
              (IF Asked(tableNames, tablesRows[rowIdx + 1])
               THEN {"querying columns", "scanning column",
                     "querying primary keys", "scanning primary key",
                     "querying foreign keys", "scanning foreign key"}
               ELSE {})
         ELSE IF mpc = "rows" THEN {"processing tables"}
              ELSE {}

\* a catalog query or scan fails: return schema, fmt.Errorf(...)
MetaFail ==
    /\ \E e \in MetaErrorsHere : merr' = e
    /\ mpc' = "failed"
    /\ UNCHANGED <<tableNames, tablesRows, fkRows, rowIdx, schemaTables,
                   preTables, run, firstTables>>
    /\ UNCHANGED iterVars
    /\ UNCHANGED exportVars
    /\ UNCHANGED churnVars
    /\ UNCHANGED eagerVars

\* rows are used up without error: the closure pass, then return schema, nil
MetaClosure ==
    /\ mpc = "rows"
    /\ rowIdx = Len(tablesRows)
    /\ preTables' = schemaTables
    /\ schemaTables' = Closure(schemaTables, tableNames)
    /\ mpc' = "done"
    /\ UNCHANGED <<tableNames, tablesRows, fkRows, rowIdx, merr, run,
                   firstTables>>
    /\ UNCHANGED iterVars
    /\ UNCHANGED exportVars
    /\ UNCHANGED churnVars
    /\ UNCHANGED eagerVars

MetaNext ==
    \/ MetaQueryTables
    \/ MetaRow
    \/ MetaFail
    \/ MetaClosure

MetaSpec == MetaInit /\ [][MetaNext]_vars

\* the orders in which a query without ORDER BY can return the rows seq
Reorderings(seq) ==
    {[i \in 1 .. Len(seq) |-> seq[p[i]]] : p \in Permutations(1 .. Len(seq))}

\* fetchMetadata is called a second time with the same selection against
\* the same catalog; the catalog queries return the same rows in any order
MetaAgain ==
    /\ mpc = "done"
    /\ run = 1
    /\ run' = 2
    /\ firstTables' = schemaTables
    /\ tablesRows' \in Reorderings(tablesRows)
    /\ fkRows' \in Reorderings(fkRows)
    /\ rowIdx' = 0
    /\ schemaTables' = <<>>
    /\ preTables' = <<>>
    /\ mpc' = "start"
    /\ UNCHANGED <<tableNames, merr>>
    /\ UNCHANGED iterVars
    /\ UNCHANGED exportVars
    /\ UNCHANGED churnVars
    /\ UNCHANGED eagerVars

MetaTwiceNext ==
    \/ MetaNext
    \/ MetaAgain

MetaTwiceSpec == MetaInit /\ [][MetaTwiceNext]_vars

\* ------------------------------------------------------------------------
\* main and saveTableToNumpy
\* ------------------------------------------------------------------------
DataTypeNull == "null"

\* values as the driver hands them to Scan: a Go kind t and its payload,
\* i for numbers (floats count halves: 5 is 2.5; times count seconds),
\* s for strings, b for booleans, bs for byte slices
NilV == [t |-> "nil", i |-> 0, s |-> "", b |-> FALSE, bs |-> <<>>]

I64(n) == [NilV EXCEPT !.t = "int64", !.i = n]

F64(h) == [NilV EXCEPT !.t = "float64", !.i = h]

Str(x) == [NilV EXCEPT !.t = "string", !.s = x]

Bl(b) == [NilV EXCEPT !.t = "bool", !.b = b]

TimeV(sec) == [NilV EXCEPT !.t = "time", !.i = sec]

Bytes(bs) == [NilV EXCEPT !.t = "bytes", !.bs = bs]

\* convertValue
convertValue(rawValue, dataType) == rawValue

\* metadata.Tables of the export run
ExportTables ==
    << [TableName |-> "users",
        Fields |-> << [FieldName |-> "id", DataType |-> DataTypeInt],
                      [FieldName |-> "name", DataType |-> DataTypeString],
                      [FieldName |-> "age", DataType |-> DataTypeInt],
                      [FieldName |-> "deleted_at", DataType |-> DataTypeTime] >>],
       [TableName |-> "tools",
        Fields |-> << [FieldName |-> "ok", DataType |-> DataTypeBool],
                      [FieldName |-> "score", DataType |-> DataTypeFloat],
                      [FieldName |-> "uid", DataType |-> DataTypeUUID],
                      [FieldName |-> "day", DataType |-> DataTypeDate],
                      [FieldName |-> "note", DataType |-> DataTypeString] >>] >>

\* selectedTables of main
selectedTables == << "users", "user_sessions", "tools" >>

\* rows table users can hold
UserRows ==
    { [id |-> I64(1), name |-> Str("ann"), age |-> I64(30), deleted_at |-> TimeV(1)],
      [id |-> I64(2), name |-> NilV, age |-> NilV, deleted_at |-> TimeV(2)],
      [id |-> I64(3), name |-> Str("bob"), age |-> I64(41), deleted_at |-> NilV] }

\* rows table tools can hold (numeric and uuid arrive as bytes).  No row
\* carries the declared field note: the row maps are keyed by the names
\* rows.Columns() reports, which need not be the catalog's FieldName
ToolRows ==
    { [ok |-> Bl(TRUE), score |-> F64(5), uid |-> Bytes(<<97>>), day |-> TimeV(3)],
      [ok |-> NilV, score |-> NilV, uid |-> NilV, day |-> NilV],
      [ok |-> Bl(FALSE), score |-> Bytes(<<49>>), uid |-> Str("u-1"), day |-> NilV] }

\* tables of at most n rows of S; a row occurs once (id and uid are keys)
SeqsUpTo(S, n) ==
    {q \in UNION {[1 .. k -> S] : k \in 0 .. n} :
        \A i, j \in DOMAIN q : i # j => q[i] # q[j]}

GetMissingAsText(row, f) == IF f \in DOMAIN row THEN row[f] ELSE Str("<missing>")

\* value := row[col.FieldName]
Get(row, f) == IF f \in DOMAIN row THEN row[f] ELSE NilV

\* int64(v) of a float64: truncation toward zero
TruncHalf(h) == IF h >= 0 THEN h \div 2 ELSE -((-h) \div 2)

\* v.Format(time.RFC3339), for the first seconds of the epoch
FormatRFC3339(sec) == "1970-01-01T00:00:0" \o ToString(sec) \o "Z"

RECURSIVE JoinBytes(_)
JoinBytes(bs) ==
    IF bs = <<>> THEN ""
    ELSE IF Len(bs) = 1 THEN ToString(bs[1])
         ELSE ToString(Head(bs)) \o " " \o JoinBytes(Tail(bs))

\* fmt.Sprintf("%v", value)
SprintV(value) ==
    CASE value.t \in {"int64", "int"} -> ToString(value.i)
      [] value.t \in {"float64", "float32"} ->
           IF value.i % 2 = 0 THEN ToString(value.i \div 2)
           ELSE ToString(value.i \div 2) \o ".5"
      [] value.t = "bool" -> IF value.b THEN "true" ELSE "false"
      [] value.t = "bytes" -> "[" \o JoinBytes(value.bs) \o "]"
      [] value.t = "time" -> "1970-01-01 00:00:0" \o ToString(value.i) \o " +0000 UTC"
      [] value.t = "string" -> value.s
      [] OTHER -> "<nil>"

\* the column type is stored in a []string
StringLike(dataType) ==
    dataType \in {DataTypeString, DataTypeDate, DataTypeTime, DataTypeUUID, DataTypeNull}

\* the element the type switch of the row loop appends for value
Cell(value, dataType) ==
    CASE dataType = DataTypeInt ->
           IF value.t = "nil" THEN I64(0)
           ELSE IF value.t \in {"int64", "int"} THEN I64(value.i)
           ELSE IF value.t = "float64" THEN I64(TruncHalf(value.i))
           ELSE I64(0)
      [] dataType = DataTypeFloat ->
           IF value.t = "nil" THEN F64(0)
           ELSE IF value.t \in {"float64", "float32"} THEN F64(value.i)
           ELSE IF value.t = "int" THEN F64(2 * value.i)
           ELSE F64(0)
      [] StringLike(dataType) ->
           IF value.t = "nil" THEN Str("")
           ELSE IF value.t = "string" THEN Str(value.s)
           ELSE IF value.t = "time" THEN Str(FormatRFC3339(value.i))
           ELSE Str(SprintV(value))
      [] dataType = DataTypeBool ->
           IF value.t = "nil" THEN Bl(FALSE)
           ELSE IF value.t = "bool" THEN Bl(value.b)
           ELSE Bl(FALSE)
      [] OTHER ->
           IF value.t = "nil" THEN Str("") ELSE Str(SprintV(value))

WarnsNever(value, dataType) == FALSE

\* log.Printf("unexpected type for column %s", ...) is reached
Warns(value, dataType) ==
    /\ value.t # "nil"
    /\ \/ dataType = DataTypeInt /\ value.t \notin {"int64", "int", "float64"}
       \/ dataType = DataTypeFloat /\ value.t \notin {"float64", "float32", "int"}
       \/ dataType = DataTypeBool /\ value.t # "bool"

InitialColumnSized(n) == [i \in 1 .. n |-> NilV]

\* make([]T, 0, totalRows): length 0, totalRows is a capacity only
InitialColumn(n) == <<>>

AppendCellSkipNil(array, value, dataType) ==
    IF value.t = "nil" THEN array ELSE Append(array, Cell(value, dataType))

\* array = append(array, ...); columnData[col.FieldName] = array
AppendCell(array, value, dataType) == Append(array, Cell(value, dataType))

\* for _, t := range selectedTables { if t == table.TableName ... }
tableRequested(name) == \E i \in 1 .. Len(selectedTables) : selectedTables[i] = name

\* if err := rowIterator.Error(); err != nil
IterationFailed(e) == e # NoErr

\* the table being exported and its fields
CurTable == ExportTables[cur]

FieldNames(t) == {t.Fields[i].FieldName : i \in 1 .. Len(t.Fields)}

TypeOf(t, f) ==
    t.Fields[CHOOSE i \in 1 .. Len(t.Fields) : t.Fields[i].FieldName = f].DataType

\* the rows the iterator has yielded, as rows of the table
YieldedRows(name, ids) == [i \in 1 .. Len(ids) |-> dbTables[name][ids[i]]]

\* main starts: the database holds two tables
ExportInit ==
    /\ dbTables \in [users : SeqsUpTo(UserRows, MaxExportRows),
                     tools : SeqsUpTo(ToolRows, MaxToolRows)]
    /\ epc = "start"
    /\ cur = 0
    /\ totalRows = 0
    /\ columnData = <<>>
    /\ rowCount = 0
    /\ wcol = 0
    /\ written = <<>>
    /\ metadataSaved = FALSE
    /\ closedIters = {}
    /\ fatalWhy = "none"
    /\ warned = {}
    /\ table = <<>>
    /\ BATCHSIZE \in 1 .. MaxExportPage
    /\ offset = 0
    /\ currentRows = 0
    /\ currentBatch = <<>>
    /\ batchIndex = 0
    /\ err = NoErr
    /\ done = FALSE
    /\ open = {}
    /\ peakOpen = 0
    /\ queries = 0
    /\ fetchLog = <<>>
    /\ yielded = <<>>
    /\ lastRet = NilFalse
    /\ faulted = FALSE
    /\ closeCalled = FALSE
    /\ callsAfterEnd = 0
    /\ MetaIdle
    /\ ChurnIdle
    /\ EagerIdle

\* main up to saveMetadata(metadata)
ExportSaveMetadata ==
    /\ epc = "start"
    /\ metadataSaved' = TRUE
    /\ epc' = "tables"
    /\ UNCHANGED <<dbTables, cur, totalRows, columnData, rowCount, wcol,
                   written, closedIters, fatalWhy, warned>>
    /\ UNCHANGED iterVars
    /\ UNCHANGED metaVars
    /\ UNCHANGED churnVars
    /\ UNCHANGED eagerVars

\* main: MkdirAll, connectToDB, fetchMetadata or saveMetadata fails
ExportStartFail ==
    /\ epc = "start"
    /\ \E why \in {"mkdir data", "connect", "metadata", "save metadata"} :
         fatalWhy' = why
    /\ epc' = "fatal"
    /\ UNCHANGED <<dbTables, cur, totalRows, columnData, rowCount, wcol,
                   written, metadataSaved, closedIters, warned>>
    /\ UNCHANGED iterVars
    /\ UNCHANGED metaVars
    /\ UNCHANGED churnVars
    /\ UNCHANGED eagerVars

\* main takes the next table; saveTableToNumpy up to the row loop:
\* MkdirAll, createRowIterator, SELECT COUNT(*), the empty column arrays
ExportBeginTable ==
    /\ epc = "tables"
    /\ cur < Len(ExportTables)
    /\ cur' = cur + 1
    /\ LET t == ExportTables[cur + 1]
       IN  IF ~tableRequested(t.TableName)
           THEN /\ UNCHANGED <<epc, totalRows, columnData, rowCount, wcol>>
                /\ UNCHANGED iterVars
           ELSE /\ table' = [i \in 1 .. Len(dbTables[t.TableName]) |-> i]
                /\ offset' = 0
                /\ currentRows' = 0
                /\ currentBatch' = <<>>
                /\ batchIndex' = 0
                /\ err' = NoErr
                /\ done' = FALSE
                /\ fetchLog' = <<>>
                /\ yielded' = <<>>
                /\ lastRet' = NilFalse
                /\ faulted' = FALSE
                /\ closeCalled' = FALSE
                /\ callsAfterEnd' = 0
                /\ UNCHANGED <<BATCHSIZE, open, peakOpen, queries>>
                /\ totalRows' \in 0 .. (Len(dbTables[t.TableName]) + 1)
                /\ columnData' = [f \in FieldNames(t) |-> InitialColumn(totalRows')]
                /\ rowCount' = 0
                /\ wcol' = 0
                /\ epc' = "rows"
    /\ UNCHANGED <<dbTables, written, metadataSaved, closedIters, fatalWhy, warned>>
    /\ UNCHANGED metaVars
    /\ UNCHANGED churnVars
    /\ UNCHANGED eagerVars

\* saveTableToNumpy: os.MkdirAll for the table directory fails
ExportBeginFail ==
    /\ epc = "tables"
    /\ cur < Len(ExportTables)
    /\ tableRequested(ExportTables[cur + 1].TableName)
    /\ cur' = cur + 1
    /\ epc' = "fatal"
    /\ fatalWhy' = "mkdir table"
    /\ UNCHANGED <<dbTables, totalRows, columnData, rowCount, wcol, written,
                   metadataSaved, closedIters, warned>>
    /\ UNCHANGED iterVars
    /\ UNCHANGED metaVars
    /\ UNCHANGED churnVars
    /\ UNCHANGED eagerVars

\* one turn of the row loop: rowIterator.Next(), then the loop body
ExportRow ==
    /\ epc = "rows"
    /\ RiNext
    /\ IF lastRet'.ok
       THEN LET row == dbTables[CurTable.TableName][lastRet'.row]
            IN  /\ columnData' =
                      [f \in FieldNames(CurTable) |->
                          AppendCell(columnData[f],
                                     convertValue(Get(row, f), TypeOf(CurTable, f)),
                                     TypeOf(CurTable, f))]
                /\ warned' = warned \cup
                      {<<CurTable.TableName, f>> : f \in
                          {g \in FieldNames(CurTable) :
                              Warns(Get(row, g), TypeOf(CurTable, g))}}
                /\ rowCount' = rowCount + 1
                /\ UNCHANGED epc
       ELSE /\ epc' = "after"
            /\ UNCHANGED <<columnData, warned, rowCount>>
    /\ UNCHANGED <<dbTables, cur, totalRows, wcol, written, metadataSaved,
                   closedIters, fatalWhy>>
    /\ UNCHANGED metaVars
    /\ UNCHANGED churnVars
    /\ UNCHANGED eagerVars

\* after the loop: rowIterator.Error() is nil, go on to write the files
ExportLoopOk ==
    /\ epc = "after"
    /\ ~IterationFailed(err)
    /\ epc' = "write"
    /\ UNCHANGED <<dbTables, cur, totalRows, columnData, rowCount, wcol,
                   written, metadataSaved, closedIters, fatalWhy, warned>>
    /\ UNCHANGED iterVars
    /\ UNCHANGED metaVars
    /\ UNCHANGED churnVars
    /\ UNCHANGED eagerVars

\* after the loop: rowIterator.Error() is set; return the error (the
\* deferred Close runs) and main calls log.Fatalf
ExportLoopFailed ==
    /\ epc = "after"
    /\ IterationFailed(err)
    /\ RiClose
    /\ closedIters' = closedIters \cup {cur}
    /\ epc' = "fatal"
    /\ fatalWhy' = "iteration"
    /\ UNCHANGED <<dbTables, cur, totalRows, columnData, rowCount, wcol,
                   written, metadataSaved, warned>>
    /\ UNCHANGED metaVars
    /\ UNCHANGED churnVars
    /\ UNCHANGED eagerVars

\* the next column file is created and written
ExportWriteColumn ==
    /\ epc = "write"
    /\ wcol < Len(CurTable.Fields)
    /\ wcol' = wcol + 1
    /\ LET col == CurTable.Fields[wcol + 1]
       IN  written' = Append(written,
                [table |-> CurTable.TableName,
                 column |-> col.FieldName,
                 dtype |-> col.DataType,
                 data |-> columnData[col.FieldName],
                 rows |-> YieldedRows(CurTable.TableName, yielded)])
    /\ UNCHANGED <<dbTables, epc, cur, totalRows, columnData, rowCount,
                   metadataSaved, closedIters, fatalWhy, warned>>
    /\ UNCHANGED iterVars
    /\ UNCHANGED metaVars
    /\ UNCHANGED churnVars
    /\ UNCHANGED eagerVars

\* os.Create or npyio.Write fails for the next column: return the error
\* (the deferred Close runs) and main calls log.Fatalf
ExportWriteFail ==
    /\ epc = "write"
    /\ wcol < Len(CurTable.Fields)
    /\ RiClose
    /\ closedIters' = closedIters \cup {cur}
    /\ epc' = "fatal"
    /\ fatalWhy' = "write"
    /\ UNCHANGED <<dbTables, cur, totalRows, columnData, rowCount, wcol,
                   written, metadataSaved, warned>>
    /\ UNCHANGED metaVars
    /\ UNCHANGED churnVars
    /\ UNCHANGED eagerVars

ExportTableDoneNoClose ==
    /\ epc = "write"
    /\ wcol = Len(CurTable.Fields)
    /\ epc' = "tables"
    /\ UNCHANGED <<dbTables, cur, totalRows, columnData, rowCount, wcol,
                   written, metadataSaved, closedIters, fatalWhy, warned>>
    /\ UNCHANGED iterVars
    /\ UNCHANGED metaVars
    /\ UNCHANGED churnVars
    /\ UNCHANGED eagerVars

\* every column is written: saveTableToNumpy returns nil, the deferred
\* rowIterator.Close() runs, main goes on to the next table
ExportTableDone ==
    /\ epc = "write"
    /\ wcol = Len(CurTable.Fields)
    /\ RiClose
    /\ closedIters' = closedIters \cup {cur}
    /\ epc' = "tables"
    /\ UNCHANGED <<dbTables, cur, totalRows, columnData, rowCount, wcol,
                   written, metadataSaved, fatalWhy, warned>>
    /\ UNCHANGED metaVars
    /\ UNCHANGED churnVars
    /\ UNCHANGED eagerVars

\* the table loop is over: "Data export complete."
ExportComplete ==
    /\ epc = "tables"
    /\ cur = Len(ExportTables)
    /\ epc' = "complete"
    /\ UNCHANGED <<dbTables, cur, totalRows, columnData, rowCount, wcol,
                   written, metadataSaved, closedIters, fatalWhy, warned>>
    /\ UNCHANGED iterVars
    /\ UNCHANGED metaVars
    /\ UNCHANGED churnVars
    /\ UNCHANGED eagerVars

ExportNext ==
    \/ ExportSaveMetadata
    \/ ExportStartFail
    \/ ExportBeginTable
    \/ ExportBeginFail
    \/ ExportRow
    \/ ExportLoopOk
    \/ ExportLoopFailed
    \/ ExportWriteColumn
    \/ ExportWriteFail
    \/ ExportTableDone
    \/ ExportComplete

ExportSpec == ExportInit /\ [][ExportNext]_vars

\* ------------------------------------------------------------------------
\* saveTableToNumpy(table TableData): the whole table in memory, one archive
\* ------------------------------------------------------------------------
\* the zero value a freshly made slice holds in every slot
ZeroOf(dataType) ==
    CASE dataType = DataTypeInt -> I64(0)
      [] dataType = DataTypeFloat -> F64(0)
      [] dataType = DataTypeBool -> Bl(FALSE)
      [] OTHER -> Str("")

\* arr[r] after the type switch of the populate loop; old is arr[r] before
NpzCell(old, value, dataType) ==
    CASE dataType = DataTypeInt ->
           IF value.t = "nil" THEN I64(0)
           ELSE IF value.t \in {"int64", "int"} THEN I64(value.i)
           ELSE IF value.t = "float64" THEN I64(TruncHalf(value.i))
           ELSE old
      [] dataType = DataTypeFloat ->
           IF value.t = "nil" THEN F64(0)
           ELSE IF value.t \in {"float64", "float32"} THEN F64(value.i)
           ELSE IF value.t = "int" THEN F64(2 * value.i)
           ELSE old
      [] dataType \in {DataTypeString, DataTypeDate} ->
           IF value.t = "nil" THEN Str("")
           ELSE IF value.t = "string" THEN Str(value.s)
           ELSE Str(SprintV(value))
      [] dataType = DataTypeBool ->
           IF value.t = "nil" THEN Bl(FALSE)
           ELSE IF value.t = "bool" THEN Bl(value.b)
           ELSE old
      [] dataType = DataTypeUUID ->
           IF value.t = "nil" THEN Str("null")
           ELSE IF value.t = "string" THEN Str(value.s)
           ELSE Str(SprintV(value))
      [] dataType = DataTypeTime ->
           IF value.t = "nil" THEN Str("null")
           ELSE IF value.t = "time" THEN Str(FormatRFC3339(value.i))
           ELSE IF value.t = "string" THEN Str(value.s)
           ELSE Str(SprintV(value))
      [] dataType = DataTypeNull ->
           IF value.t = "nil" THEN Str("null")
           ELSE IF value.t = "string" THEN Str(value.s)
           ELSE Str(SprintV(value))
      [] OTHER -> value

\* table.Rows
NpzRows == dbTables[CurTable.TableName]

\* saveTableToNumpy is called with one table and its rows
NpzInit ==
    /\ dbTables \in [users : SeqsUpTo(UserRows, MaxExportRows),
                     tools : SeqsUpTo(ToolRows, MaxToolRows)]
    /\ cur \in 1 .. Len(ExportTables)
    /\ epc = "npz start"
    /\ totalRows = 0
    /\ columnData = <<>>
    /\ rowCount = 0
    /\ wcol = 0
    /\ written = <<>>
    /\ metadataSaved = FALSE
    /\ closedIters = {}
    /\ fatalWhy = "none"
    /\ warned = {}
    /\ IterIdle
    /\ MetaIdle
    /\ ChurnIdle
    /\ EagerIdle

\* nrows := len(table.Rows); one slice of nrows slots per column
NpzAllocate ==
    /\ epc = "npz start"
    /\ totalRows' = Len(NpzRows)
    /\ columnData' = [f \in FieldNames(CurTable) |->
                         [i \in 1 .. Len(NpzRows) |-> ZeroOf(TypeOf(CurTable, f))]]
    /\ rowCount' = 0
    /\ epc' = "npz fill"
    /\ UNCHANGED <<dbTables, cur, wcol, written, metadataSaved, closedIters,
                   fatalWhy, warned>>
    /\ UNCHANGED iterVars
    /\ UNCHANGED metaVars
    /\ UNCHANGED churnVars
    /\ UNCHANGED eagerVars

\* one turn of for r, row := range table.Rows
NpzFillRow ==
    /\ epc = "npz fill"
    /\ rowCount < totalRows
    /\ LET row == NpzRows[rowCount + 1]
       IN  /\ columnData' =
                 [f \in FieldNames(CurTable) |->
                     [columnData[f] EXCEPT ![rowCount + 1] =
                         NpzCell(@, Get(row, f), TypeOf(CurTable, f))]]
           /\ warned' = warned \cup
                 {<<CurTable.TableName, f>> : f \in
                     {g \in FieldNames(CurTable) :
                         Warns(Get(row, g), TypeOf(CurTable, g))}}
    /\ rowCount' = rowCount + 1
    /\ UNCHANGED <<dbTables, epc, cur, totalRows, wcol, written, metadataSaved,
                   closedIters, fatalWhy>>
    /\ UNCHANGED iterVars
    /\ UNCHANGED metaVars
    /\ UNCHANGED churnVars
    /\ UNCHANGED eagerVars

\* npz.Write(fileName, arrays) succeeds
NpzWrite ==
    /\ epc = "npz fill"
    /\ rowCount = totalRows
    /\ written' = Append(written, [table |-> CurTable.TableName,
                                   arrays |-> columnData])
    /\ epc' = "npz done"
    /\ UNCHANGED <<dbTables, cur, totalRows, columnData, rowCount, wcol,
                   metadataSaved, closedIters, fatalWhy, warned>>
    /\ UNCHANGED iterVars
    /\ UNCHANGED metaVars
    /\ UNCHANGED churnVars
    /\ UNCHANGED eagerVars

\* npz.Write fails: log.Fatalf
NpzWriteFail ==
    /\ epc = "npz fill"
    /\ rowCount = totalRows
    /\ epc' = "fatal"
    /\ fatalWhy' = "write"
    /\ UNCHANGED <<dbTables, cur, totalRows, columnData, rowCount, wcol,
                   written, metadataSaved, closedIters, warned>>
    /\ UNCHANGED iterVars
    /\ UNCHANGED metaVars
    /\ UNCHANGED churnVars
    /\ UNCHANGED eagerVars

NpzNext ==
    \/ NpzAllocate
    \/ NpzFillRow
    \/ NpzWrite
    \/ NpzWriteFail

NpzSpec == NpzInit /\ [][NpzNext]_vars

\* ------------------------------------------------------------------------
\* Properties of RowIterator
\* ------------------------------------------------------------------------
\* the batchCount the i-th fetch of a complete, undisturbed iteration returns
ExpectedCount(i) == Min(BATCHSIZE, Max(0, Len(table) - (i - 1) * BATCHSIZE))

\* the database served every query in full and Close() was not called
Undisturbed == ~faulted /\ ~closeCalled

\* C1: on an unchanged table served without database failure, the rows
\* returned by successive Next() calls are always a prefix of the table in
\* table order, and once Next() has returned false they are the whole
\* table: each row exactly once, none skipped or duplicated.
C1_YieldsEveryRowOnce ==
    Undisturbed =>
        /\ Len(yielded) <= Len(table)
        /\ yielded = SubSeq(table, 1, Len(yielded))
        /\ (done => yielded = table)

C1_Witness ==
    /\ Undisturbed
    /\ done
    /\ Len(table) >= 3
    /\ BATCHSIZE = 2
    /\ yielded = table

\* C2 as stated: a complete iteration issues exactly ceil(N/P) queries.
C2_Original ==
    (Undisturbed /\ done) => queries = CeilDiv(Len(table), BATCHSIZE)

\* C2 amended: a complete iteration issues exactly ceil(N/P) + 1 queries:
\* ceil(N/P) fetches that return rows (full pages, then the remainder) and
\* one final fetch that returns 0 rows.
C2_FetchCount ==
    (Undisturbed /\ done) =>
        /\ queries = CeilDiv(Len(table), BATCHSIZE) + 1
        /\ Len(fetchLog) = queries
        /\ \A i \in 1 .. Len(fetchLog) : fetchLog[i] = ExpectedCount(i)
        /\ fetchLog[Len(fetchLog)] = 0

C2_Witness ==
    /\ Undisturbed
    /\ done
    /\ Len(table) = 5
    /\ BATCHSIZE = 2
    /\ fetchLog = <<2, 2, 1, 0>>
    /\ queries = 4

\* C3: whenever the iterator is Exhausted (done = true, err = nil) its
\* offset equals the number of rows of the table.
C3_OffsetAtExhaustion ==
    (done /\ err = NoErr) => offset = Len(table)

\* C4: a step of Next() that completes a fetch of k > 0 rows adds exactly k
\* to the offset; every other step (a fetch of 0 rows, a failing fetch, a
\* buffered row, a call after the end, Close) leaves the offset unchanged.
C4_OffsetAdvance ==
    [][IF /\ Len(fetchLog') = Len(fetchLog) + 1
          /\ fetchLog'[Len(fetchLog')] > 0
       THEN offset' = offset + fetchLog'[Len(fetchLog')]
       ELSE offset' = offset]_vars

C4_Witness ==
    /\ fetchLog # <<>>
    /\ fetchLog[Len(fetchLog)] > 0
    /\ fetchLog[Len(fetchLog)] < BATCHSIZE
    /\ offset = Len(table)
    /\ offset % BATCHSIZE # 0

\* C5: once err is set, every step keeps the same error, issues no query,
\* returns no row, and Next() answers (nil, false).
C5_FailedIsAbsorbing ==
    [][err # NoErr =>
          /\ err' = err
          /\ queries' = queries
          /\ yielded' = yielded
          /\ lastRet' = NilFalse]_vars

C5_Witness ==
    /\ err # NoErr
    /\ callsAfterEnd >= 1
    /\ lastRet = NilFalse

\* C6: once the iterator is exhausted (done, no error), every step leaves
\* offset, buffer, error and the number of queries unchanged and Next()
\* answers (nil, false).
C6_ExhaustedIsAbsorbing ==
    [][(done /\ err = NoErr) =>
          /\ UNCHANGED <<offset, currentBatch, batchIndex, err, done,
                         queries, fetchLog, yielded>>
          /\ lastRet' = NilFalse]_vars

C6_Witness ==
    /\ done
    /\ err = NoErr
    /\ ~faulted
    /\ Len(table) >= 1
    /\ callsAfterEnd >= 1
    /\ lastRet = NilFalse

\* C7: at most one result cursor is open in every state and at the moment
\* of every query, and the only cursor that can be open is ri.currentRows.
C7_OneCursor ==
    /\ Cardinality(open) <= 1
    /\ peakOpen <= 1
    /\ open \subseteq {currentRows}

C7_Witness ==
    /\ queries >= 2
    /\ open = {currentRows}
    /\ currentRows = queries
    /\ peakOpen = 1

\* C20: the iterator becomes Exhausted (done, no error) only in a step that
\* completes a fetch with batchCount 0, so a fetch that returns rows, however
\* few, never ends the iteration; an exhausted iterator's last fetch returned
\* 0 rows, and an undisturbed complete iteration has exactly one such fetch.
C20_ExhaustedOnlyByEmptyFetch ==
    [][/\ (~done /\ done' /\ err' = NoErr) =>
              /\ Len(fetchLog') = Len(fetchLog) + 1
              /\ queries' = queries + 1
              /\ fetchLog'[Len(fetchLog')] = 0
       /\ (Len(fetchLog') = Len(fetchLog) + 1 /\ fetchLog'[Len(fetchLog')] > 0) =>
              /\ ~done'
              /\ lastRet'.ok
       /\ (done' /\ err' = NoErr) =>
              /\ fetchLog' # <<>>
              /\ fetchLog'[Len(fetchLog')] = 0
              /\ \A i \in 1 .. (Len(fetchLog') - 1) : fetchLog'[i] > 0]_vars

C20_Witness ==
    /\ Undisturbed
    /\ done
    /\ err = NoErr
    /\ Len(table) = 3
    /\ BATCHSIZE = 2
    /\ fetchLog = <<2, 1, 0>>

\* ------------------------------------------------------------------------
\* Properties of fetchMetadata
\* ------------------------------------------------------------------------
\* the selected table set
Selected == {tableNames[i] : i \in 1 .. Len(tableNames)}

\* the (table, field) positions of a schema
Positions(tables) ==
    UNION {{<<ti, fi>> : fi \in 1 .. Len(tables[ti].Fields)} : ti \in 1 .. Len(tables)}

FieldAt(tables, p) == tables[p[1]].Fields[p[2]]

\* IsForeignKey holds exactly when both reference pointers are set
FkConsistent(f) ==
    /\ f.IsForeignKey <=> (f.ReferencedTable # Nil /\ f.ReferencedField # Nil)

\* C8: when fetchMetadata has returned successfully, no field has
\* IsForeignKey = true with a ReferencedTable outside the selected set.
C8_NoDanglingForeignKey ==
    (mpc = "done" /\ merr = NoErr) =>
        \A p \in Positions(schemaTables) :
            LET f == FieldAt(schemaTables, p)
            IN  ~(/\ f.IsForeignKey
                  /\ f.ReferencedTable # Nil
                  /\ f.ReferencedTable[1] \notin Selected)

C8_Witness ==
    /\ mpc = "done"
    /\ merr = NoErr
    /\ \E p \in Positions(schemaTables) :
         /\ FieldAt(preTables, p).IsForeignKey
         /\ FieldAt(preTables, p).ReferencedTable[1] \notin Selected
         /\ ~FieldAt(schemaTables, p).IsForeignKey

\* C9: in every state of fetchMetadata, before and after the closure pass,
\* every field has IsForeignKey = true if and only if both ReferencedTable
\* and ReferencedField are non-nil.
C9_FlagIffReference ==
    /\ \A p \in Positions(schemaTables) : FkConsistent(FieldAt(schemaTables, p))
    /\ \A p \in Positions(preTables) : FkConsistent(FieldAt(preTables, p))

C9_Witness ==
    /\ mpc = "done"
    /\ \E p \in Positions(schemaTables) :
         /\ FieldAt(preTables, p).IsForeignKey
         /\ ~FieldAt(schemaTables, p).IsForeignKey
         /\ FieldAt(schemaTables, p).ReferencedTable = Nil
         /\ FieldAt(schemaTables, p).ReferencedField = Nil
    /\ \E p \in Positions(schemaTables) :
         /\ FieldAt(schemaTables, p).IsForeignKey
         /\ FieldAt(schemaTables, p).ReferencedTable # Nil

\* C10: the closure pass keeps the tables and their field lists, leaves
\* name, type, nullability and primary-key flag of every field unchanged,
\* leaves every non-foreign-key field unchanged, and leaves unchanged every
\* foreign-key field whose referenced table is selected.
C10_ClosureFrame ==
    (mpc = "done") =>
        /\ Len(schemaTables) = Len(preTables)
        /\ \A ti \in 1 .. Len(preTables) :
             /\ schemaTables[ti].TableName = preTables[ti].TableName
             /\ Len(schemaTables[ti].Fields) = Len(preTables[ti].Fields)
        /\ \A p \in Positions(preTables) :
             LET f0 == FieldAt(preTables, p)
                 f1 == FieldAt(schemaTables, p)
             IN  /\ f1.FieldName = f0.FieldName
                 /\ f1.DataType = f0.DataType
                 /\ f1.IsNullable = f0.IsNullable
                 /\ f1.IsPrimaryKey = f0.IsPrimaryKey
                 /\ ~f0.IsForeignKey => f1 = f0
                 /\ (f0.IsForeignKey /\ f0.ReferencedTable[1] \in Selected) =>
                        /\ f1 = f0
                        /\ f1.IsForeignKey

\* selection {users, sessions}: user_id -> users.id is kept, org_id ->
\* orgs.id is dropped
C10_Witness ==
    /\ mpc = "done"
    /\ Selected = {"users", "sessions"}
    /\ \E ti \in 1 .. Len(schemaTables) :
         /\ schemaTables[ti].TableName = "sessions"
         /\ schemaTables[ti].Fields[2].FieldName = "user_id"
         /\ schemaTables[ti].Fields[2].IsForeignKey
         /\ schemaTables[ti].Fields[2].ReferencedTable = Ptr("users")
         /\ schemaTables[ti].Fields[2].ReferencedField = Ptr("id")
         /\ preTables[ti].Fields[3].IsForeignKey
         /\ preTables[ti].Fields[3].ReferencedTable = Ptr("orgs")
         /\ ~schemaTables[ti].Fields[3].IsForeignKey
         /\ schemaTables[ti].Fields[3].ReferencedTable = Nil
         /\ schemaTables[ti].Fields[3].ReferencedField = Nil

\* the names of the tables of a schema
TableNamesOf(tables) == {tables[i].TableName : i \in 1 .. Len(tables)}

\* C11: when fetchMetadata has returned successfully, the ReferencedTable of
\* every remaining foreign-key field is the name of a table present in
\* schema.Tables.
C11_ReferencesResolvable ==
    (mpc = "done" /\ merr = NoErr) =>
        \A p \in Positions(schemaTables) :
            FieldAt(schemaTables, p).IsForeignKey =>
                FieldAt(schemaTables, p).ReferencedTable[1] \in TableNamesOf(schemaTables)

\* C12: when fetchMetadata returns an error, the schema returned with it
\* contains no tables.
C12_NoPartialSchema ==
    (mpc = "failed" /\ merr # NoErr) => schemaTables = <<>>

\* C13: schema.Tables holds only selected tables, no table twice, and the
\* fields of each table are the rows of its columns query in ordinal order.
C13_OnlySelectedInOrder ==
    /\ TableNamesOf(schemaTables) \subseteq Selected
    /\ \A i, j \in 1 .. Len(schemaTables) :
         i # j => schemaTables[i].TableName # schemaTables[j].TableName
    /\ \A ti \in 1 .. Len(schemaTables) :
         LET cols == ColumnRows(schemaTables[ti].TableName)
         IN  /\ Len(schemaTables[ti].Fields) = Len(cols)
             /\ \A fi \in 1 .. Len(cols) :
                  schemaTables[ti].Fields[fi].FieldName = cols[fi].column_name

C13_Witness ==
    /\ mpc = "done"
    /\ merr = NoErr
    /\ Selected = {"sessions", "orgs", "teams"}
    /\ Len(schemaTables) = 2
    /\ TableNamesOf(schemaTables) = {"sessions", "orgs"}
    /\ rowIdx = 3

\* C19: a second call of fetchMetadata with the same selection against the
\* same catalog returns the same schema.Tables as the first call, whatever
\* order the catalog queries return their rows in.
C19_SecondRunIdentical ==
    (run = 2 /\ mpc = "done" /\ merr = NoErr) => schemaTables = firstTables

\* ------------------------------------------------------------------------
\* Properties of saveTableToNumpy and main
\* ------------------------------------------------------------------------
\* the column files written so far for table name
ArtifactsOf(name) == {k \in 1 .. Len(written) : written[k].table = name}

\* every column file of ExportTables[j] is written
AllWritten(j) ==
    \A f \in FieldNames(ExportTables[j]) :
       \E k \in ArtifactsOf(ExportTables[j].TableName) : written[k].column = f

\* C14: in the row loop and after it every column array is as long as the
\* number of rows the iterator has yielded, and every column file written
\* holds exactly as many entries as rows were yielded for its table (none
\* for an empty table), whatever SELECT COUNT(*) reported.
C14_ColumnsMatchYielded ==
    /\ epc \in {"rows", "after", "write"} =>
         \A f \in FieldNames(CurTable) :
            /\ Len(columnData[f]) = Len(yielded)
            /\ Len(columnData[f]) = rowCount
    /\ \A k \in 1 .. Len(written) : Len(written[k].data) = Len(written[k].rows)

C14_Witness ==
    /\ epc = "complete"
    /\ \E k \in ArtifactsOf("users") : Len(written[k].data) = 2
    /\ \E k \in ArtifactsOf("tools") : Len(written[k].data) = 0
    /\ totalRows = 1
    /\ Len(dbTables["users"]) = 2

\* the sentinel the specification documents for a null of the six types
DocumentedSentinel(dataType) ==
    CASE dataType = DataTypeInt -> I64(0)
      [] dataType = DataTypeFloat -> F64(0)
      [] dataType = DataTypeBool -> Bl(FALSE)
      [] OTHER -> Str("")

HasDocumentedSentinel(dataType) ==
    dataType \in {DataTypeInt, DataTypeFloat, DataTypeBool, DataTypeString,
                  DataTypeDate, DataTypeUUID}

\* C15: for every column of type Int, Float, Bool, String, Date or UUID, the
\* slot of a row whose raw value is nil holds the documented sentinel
\* (0, 0.0, false, the empty string) once the row is transposed.
C15_NilGivesSentinel ==
    epc \in {"npz fill", "npz done"} =>
       \A f \in FieldNames(CurTable) :
          \A i \in 1 .. rowCount :
             (/\ HasDocumentedSentinel(TypeOf(CurTable, f))
              /\ Get(NpzRows[i], f).t = "nil")
             => columnData[f][i] = DocumentedSentinel(TypeOf(CurTable, f))

\* the same statement for the streaming saveTableToNumpy
StreamingNilGivesSentinel ==
    epc \in {"rows", "after", "write"} =>
       \A f \in FieldNames(CurTable) :
          \A i \in 1 .. Len(yielded) :
             (/\ HasDocumentedSentinel(TypeOf(CurTable, f))
              /\ Get(NpzRows[yielded[i]], f).t = "nil")
             => /\ i <= Len(columnData[f])
                /\ columnData[f][i] = DocumentedSentinel(TypeOf(CurTable, f))

\* C16: entry i of every column file is the normalized value of that column
\* in the i-th row the iterator yielded; a nil value fills its own slot.
C16_PositionsPreserved ==
    \A k \in 1 .. Len(written) :
       \A i \in 1 .. Len(written[k].rows) :
          /\ i <= Len(written[k].data)
          /\ written[k].data[i] =
                Cell(Get(written[k].rows[i], written[k].column), written[k].dtype)

C16_Witness ==
    \E k \in ArtifactsOf("users") :
       /\ written[k].column = "deleted_at"
       /\ Len(written[k].rows) = 3
       /\ Len(written[k].data) = 3
       /\ written[k].rows[3]["deleted_at"] = NilV
       /\ written[k].rows[1]["deleted_at"] # NilV
       /\ written[k].rows[2]["deleted_at"] # NilV
       /\ written[k].data[3] = Str("")

\* C17: once a fetch or scan of the current table has failed after rows
\* were yielded, no column file of that table is ever written and the run
\* only goes on to its fatal end (no write phase, no next table).
C17_IterationFailureAborts ==
    (epc \in {"rows", "after", "write", "tables", "complete", "fatal"}
        /\ cur >= 1 /\ faulted /\ yielded # <<>>)
    => /\ ArtifactsOf(CurTable.TableName) = {}
       /\ epc \in {"rows", "after", "fatal"}

\* the same statement for the failures the iterator records in its err
RecordedFailureAborts ==
    (cur >= 1 /\ err # NoErr /\ epc # "rows")
    => /\ ArtifactsOf(CurTable.TableName) = {}
       /\ epc \in {"after", "fatal"}

\* C18: a step that starts a table or issues a row query happens only
\* after the metadata is saved, and only when every earlier requested table
\* has all its column files written and its iterator closed, with no cursor
\* open other than the current iterator's own.
C18_StrictlySequential ==
    [][(cur' # cur \/ queries' > queries) =>
          /\ metadataSaved
          /\ open \subseteq {currentRows}
          /\ \A j \in 1 .. (cur' - 1) :
                tableRequested(ExportTables[j].TableName) =>
                   /\ j \in closedIters
                   /\ AllWritten(j)]_vars

C18_Witness ==
    /\ cur = 2
    /\ epc = "rows"
    /\ Len(fetchLog) >= 2
    /\ yielded # <<>>
    /\ 1 \in closedIters
    /\ AllWritten(1)
    /\ Len(dbTables["users"]) >= 2

\* ------------------------------------------------------------------------
\* Further properties of RowIterator
\* ------------------------------------------------------------------------
\* C21: a call of Next() issues at most one query, and issues it only when
\* no unreturned row is left in the page: on the first call or when
\* batchIndex has reached the page length.
C21_NoPrefetch ==
    [][queries' > queries =>
          /\ queries' = queries + 1
          /\ queries = 0 \/ batchIndex >= Len(currentBatch)]_vars

\* the same statement for an iterator on which Close() was never called
NoPrefetchUnlessClosed ==
    [][(queries' > queries /\ ~closeCalled) =>
          /\ queries' = queries + 1
          /\ queries = 0 \/ batchIndex >= Len(currentBatch)]_vars

\* C22: the buffer never holds more than one page of BATCHSIZE rows,
\* however many rows the table has.
C22_BufferAtMostOnePage == Len(currentBatch) <= BATCHSIZE

C22_Witness ==
    /\ BATCHSIZE = 2
    /\ Len(table) = 5
    /\ Len(currentBatch) = 2
    /\ Len(yielded) = 3

\* C26: a caller that keeps calling Next() on a finite unchanged table
\* gets true at most once per row of the table and eventually gets false:
\* the iterator ends up done or failed after finitely many calls.
C26_EventuallyFalse ==
    /\ [](Len(yielded) <= Len(table))
    /\ <>((done \/ err # NoErr) /\ ~lastRet.ok)

C26_Witness ==
    /\ done
    /\ err = NoErr
    /\ ~lastRet.ok
    /\ Len(table) = 5
    /\ Len(yielded) = 5
    /\ BATCHSIZE = 2

\* C27: once Close() has been called the cursor is released for good: no
\* later step opens a cursor, returns a row, or drops unreturned rows of
\* the buffer.
C27_ClosedStaysClosed ==
    [][closeCalled =>
          /\ open' = {}
          /\ queries' = queries
          /\ yielded' = yielded
          /\ currentBatch' = currentBatch]_vars

\* C28: offset is the number of rows fetched so far, which is the number of
\* rows returned plus the number of rows still unreturned in the buffer,
\* and batchIndex stays within the buffer.
C28_Accounting ==
    /\ batchIndex >= 0
    /\ batchIndex <= Len(currentBatch)
    /\ offset = Len(yielded) + (Len(currentBatch) - batchIndex)

\* the same statement while no error is recorded and Close() was not called
AccountingUndisturbed ==
    (err = NoErr /\ ~closeCalled) => C28_Accounting

\* C29: an iterator with an error is done; a call that returned true
\* returned a row and left no error; after a fetch that delivered no rows
\* the iterator is done without an error.
C29_ErrorImpliesDone ==
    /\ err # NoErr => done
    /\ lastRet.ok => (lastRet.row # 0 /\ err = NoErr)
    /\ (fetchLog # <<>> /\ fetchLog[Len(fetchLog)] = 0) => (done /\ err = NoErr)

C29_Witness ==
    /\ done
    /\ err = NoErr
    /\ fetchLog = <<2, 1, 0>>
    /\ yielded = <<1, 2, 3>>
    /\ callsAfterEnd >= 1

\* number of times x occurs in seq
Count(seq, x) == Cardinality({i \in DOMAIN seq : seq[i] = x})

\* the iteration ran to exhaustion and the database never failed
CleanlyExhausted == done /\ err = NoErr /\ ~faulted /\ ~closeCalled

\* C23: offset pagination over a table that another process writes to
\* between two fetches.  A delete among the rows already fetched makes the
\* iteration skip the next unfetched row, which was in the table all along;
\* an insert among the rows already fetched makes it return the last
\* fetched row a second time; a write beyond the offset does neither.
C23_ChurnSkipsOrDuplicates ==
    CleanlyExhausted =>
       /\ (churn.kind = "delete" /\ churn.pos <= churn.at /\ churn.at <= Len(table))
             => Count(yielded, table[churn.at]) = 0
       /\ (churn.kind = "insert" /\ churn.pos <= churn.at)
             => Count(yielded, table[churn.at + 1]) = 2
       /\ (churn.kind # "none" /\ churn.pos > churn.at)
             => \A i \in DOMAIN table :
                   table[i] # churn.row => Count(yielded, table[i]) = 1

C23_Witness ==
    /\ CleanlyExhausted
    /\ churn.kind = "delete"
    /\ churn.pos <= churn.at
    /\ churn.at <= Len(table)
    /\ table[churn.at] \notin {yielded[i] : i \in DOMAIN yielded}
    /\ Len(fetchLog) >= 3

\* the other anomaly: a row present all along is returned twice
ChurnDuplicateReached ==
    /\ CleanlyExhausted
    /\ churn.kind = "insert"
    /\ \E i, j \in DOMAIN yielded : i # j /\ yielded[i] = yielded[j]
                                     /\ yielded[i] # churn.row

\* ------------------------------------------------------------------------
\* FetchTableData against RowIterator
\* ------------------------------------------------------------------------
\* C30: over the same unchanged table and page size, with a database that
\* does not fail, the rows FetchTableData returns are the rows a drained
\* RowIterator returned, in the same order, whatever the table size.
C30_EagerEqualsStreaming ==
    (eagerPc = "returned" /\ ~eagerFaulted /\ CleanlyExhausted)
       => tableDataRows = yielded

C30_Witness ==
    /\ eagerPc = "returned"
    /\ ~eagerFaulted
    /\ CleanlyExhausted
    /\ Len(table) = 5
    /\ BATCHSIZE = 2
    /\ eagerOffset = 6
    /\ offset = 5
    /\ tableDataRows = <<1, 2, 3, 4, 5>>
    /\ yielded = <<1, 2, 3, 4, 5>>

\* ------------------------------------------------------------------------
\* Further properties of saveTableToNumpy
\* ------------------------------------------------------------------------
\* C24: a row that lacks a declared field still gives the field's column one
\* entry, at the row's position, equal to what a nil value of that column
\* gives: the null sentinel of the column's type.
C24_MissingFieldIsNull ==
    \A k \in 1 .. Len(written) :
       \A i \in 1 .. Len(written[k].rows) :
          written[k].column \notin DOMAIN written[k].rows[i] =>
             /\ Len(written[k].data) = Len(written[k].rows)
             /\ written[k].data[i] = Cell(NilV, written[k].dtype)
             /\ written[k].data[i] = DocumentedSentinel(written[k].dtype)

C24_Witness ==
    /\ epc = "complete"
    /\ \E k \in ArtifactsOf("tools") :
          /\ written[k].column = "note"
          /\ Len(written[k].rows) = 2
          /\ written[k].data = <<Str(""), Str("")>>
          /\ "note" \notin DOMAIN written[k].rows[1]

\* a non-nil value of a representation the Int, Float or Bool branch of the
\* type switch neither takes nor coerces
Uncoercible(value, dataType) ==
    /\ value.t # "nil"
    /\ \/ dataType = DataTypeInt /\ value.t \notin {"int64", "int", "float64"}
       \/ dataType = DataTypeFloat /\ value.t \notin {"float64", "float32", "int"}
       \/ dataType = DataTypeBool /\ value.t # "bool"

\* C25: a non-nil value that the Int, Float or Bool column cannot take is
\* not fatal: its row's slot holds the zero sentinel, the warning for the
\* column is logged, and the rows after it are exported as well.
C25_UncoercibleGivesZero ==
    \A k \in 1 .. Len(written) :
       \A i \in 1 .. Len(written[k].rows) :
          Uncoercible(Get(written[k].rows[i], written[k].column), written[k].dtype) =>
             /\ Len(written[k].data) = Len(written[k].rows)
             /\ written[k].data[i] = DocumentedSentinel(written[k].dtype)
             /\ <<written[k].table, written[k].column>> \in warned

C25_Witness ==
    /\ epc = "complete"
    /\ \E k \in ArtifactsOf("tools") :
          /\ written[k].column = "score"
          /\ Len(written[k].rows) = 2
          /\ written[k].rows[1]["score"] = Bytes(<<49>>)
          /\ written[k].data = <<F64(0), F64(5)>>
    /\ <<"tools", "score">> \in warned

\* the same statement for saveTableToNumpy(table TableData)
NpzUncoercibleGivesZero ==
    epc \in {"npz fill", "npz done"} =>
       \A f \in FieldNames(CurTable) :
          \A i \in 1 .. rowCount :
             Uncoercible(Get(NpzRows[i], f), TypeOf(CurTable, f)) =>
                /\ columnData[f][i] = DocumentedSentinel(TypeOf(CurTable, f))
                /\ <<CurTable.TableName, f>> \in warned

====
